---- MODULE Spec2Model ----
(***************************************************************************)
(* A model of ssas_api.py: the lazy loader of the .NET client assemblies,  *)
(* the guarded public operations, the model processor (process_model) and  *)
(* the converter of a DAX result (_parse_DAX_result).                      *)
(***************************************************************************)
EXTENDS Integers, Sequences, FiniteSets, TLC

VARIABLES
    defined,         \* the module globals among System, DataTable, AMO, ADOMD that are bound
    loaded,          \* whether a run of _load_assemblies has returned normally
    last,            \* what the single caller's latest public call did
    table,           \* the DataTable handed to _parse_DAX_result
    parsed,          \* what _parse_DAX_result made of it
    pc,              \* each thread's position in its first guarded call
    observed,        \* what each thread saw when it evaluated type(DataTable)
    writes           \* assignments made to the module globals by the threads

vars == <<defined, loaded, last, table, parsed, pc, observed, writes>>

\* ------------------------------------------------------------------ bounds

MaxCols == 2       \* columns of a DataTable
MaxRows == 2       \* rows of a DataTable
NThreads == 2      \* threads making their first guarded call

\* ------------------------------------------------------------- the loader

None == "None"

GlobalNames == {"System", "DataTable", "AMO", "ADOMD"}

\* The steps of _load_assemblies that can raise, in program order.
LoadSteps ==
    <<"discover_amo", "discover_adomd", "AddReference",
      "import_System", "import_DataTable", "import_AMO", "import_ADOMD">>

StepIndex(step) == CHOOSE i \in 1..Len(LoadSteps) : LoadSteps[i] = step

PathArgs == {None, "C:/dll"}

\* Where a run of _load_assemblies may fail: the default-directory listing is
\* evaluated only for a path that was not passed.
FailPoints(amo_path, adomd_path) ==
    {"none", "AddReference", "import_System", "import_DataTable",
     "import_AMO", "import_ADOMD"}
    \cup (IF amo_path = None THEN {"discover_amo"} ELSE {})
    \cup (IF adomd_path = None THEN {"discover_adomd"} ELSE {})

\* The step that binds each global.
ImportStep ==
    [System |-> "import_System", DataTable |-> "import_DataTable",
     AMO |-> "import_AMO", ADOMD |-> "import_ADOMD"]

\* The globals bound by the import statements that ran before the failing step.
ImportedBefore(failAt) ==
    IF failAt = "none"
    THEN GlobalNames
    ELSE {g \in GlobalNames : StepIndex(ImportStep[g]) < StepIndex(failAt)}

_load_assemblies(defs, amo_path, adomd_path, failAt) ==
    [defined |-> defs \cup ImportedBefore(failAt),
     raised  |-> failAt # "none"]

\* A guard that misspells the sentinel never finds it.
SentinelMisspelled(defs) == "Datatable" \in defs

\* try: type(DataTable) / except NameError
SentinelDefined(defs) == "DataTable" \in defs

\* The decorator's wrapper up to the call of the wrapped function.
_assert_dotnet_loaded(defs, amo_path, adomd_path, failAt) ==
    IF SentinelDefined(defs)
    THEN [defined |-> defs, loads |-> 0, raised |-> FALSE]
    ELSE LET r == _load_assemblies(defs, amo_path, adomd_path, failAt)
         IN  [defined |-> r.defined, loads |-> 1, raised |-> r.raised]

\* ------------------------------------------------------- the result converter

\* A cell, source or converted: a tag t and the payload (n: number or seconds,
\* f: fraction of a second, s: text).
Cell(t, n, f, s) == [t |-> t, n |-> n, f |-> f, s |-> s]

DBNull == Cell("DBNull", 0, 0, "")
NaN == Cell("NaN", 0, 0, "")

TypeNames ==
    {"System.Int64", "System.Double", "System.String", "System.DateTime",
     "System.Boolean"}

\* The non-null values a column of each declared type may hold, as they reach
\* Python; the DateTime is a moment that is not on a whole second.
ValuesOf(type) ==
    CASE type = "System.Int64"    -> {Cell("int", 1, 0, ""), Cell("int", 2, 0, "")}
      [] type = "System.Double"   -> {Cell("float", 1, 0, "")}
      [] type = "System.String"   -> {Cell("str", 0, 0, "a")}
      [] type = "System.DateTime" -> {Cell("DateTime", 1, 1, "")}
      [] OTHER                    -> {Cell("bool", 1, 0, "")}

CellsOf(type) == {DBNull} \cup ValuesOf(type)

AllCells == UNION {CellsOf(type) : type \in TypeNames}

RowsFor(cs, nr) ==
    [1..nr -> {row \in [1..Len(cs) -> AllCells] :
                 \A c \in 1..Len(cs) : row[c] \in CellsOf(cs[c])}]

\* The DataTables of at most maxCols columns and maxRows rows.
Tables(maxCols, maxRows) ==
    UNION {UNION {{[cols |-> cs, rows |-> rs] : rs \in RowsFor(cs, nr)} :
                    cs \in [1..nc -> TypeNames]} :
             nc \in 0..maxCols, nr \in 0..maxRows}

\* lambda x: np.NaN if isinstance(x, System.DBNull) else x
ReplaceDBNull(x) == IF x.t = "DBNull" THEN NaN ELSE x

isna(x) == x.t = "NaN"

\* A missing cell anywhere in the frame, whatever the column.
FrameAnyNa(cells, c) ==
    \E r \in 1..Len(cells) : \E d \in 1..Len(cells[r]) : isna(cells[r][d])

\* df.isna().any(axis=0), for column c
ColumnAnyNa(cells, c) == \E r \in 1..Len(cells) : isna(cells[r][c])

\* df.loc[:, dtt].isna().all()
ColumnAllNa(cells, c) == \A r \in 1..Len(cells) : isna(cells[r][c])

\* x.ToString('s') exists on a System.DateTime only; a NaN is a float.
HasToString(x) == x.t = "DateTime"

\* The sortable format yyyy-MM-ddTHH:mm:ss carries no fraction of a second.
ToString_s(x) == Cell("sortable", x.n, 0, "")

to_datetime(x) == Cell("Timestamp", x.n, x.f, "")

\* Lines 172-179: Series.map calls the lambda on every cell of a converted
\* column, the missing ones included.
ConvertDatetimes(cols, cells) ==
    LET conv == {c \in 1..Len(cols) :
                   cols[c] = "System.DateTime" /\ ~ColumnAllNa(cells, c)}
    IN  IF \E c \in conv : \E r \in 1..Len(cells) : ~HasToString(cells[r][c])
        THEN [raised |-> TRUE, cells |-> cells]
        ELSE [raised |-> FALSE,
              cells |-> [r \in 1..Len(cells) |->
                           [c \in 1..Len(cols) |->
                              IF c \in conv
                              THEN to_datetime(ToString_s(cells[r][c]))
                              ELSE cells[r][c]]]]

\* types_map.get(c.DataType.FullName, "object")
types_map(type) ==
    CASE type = "System.Int64"  -> "int"
      [] type = "System.Double" -> "float"
      [] type = "System.String" -> "str"
      [] OTHER                  -> "object"

\* Lines 183-188: an int column holding a NaN is given float instead.
col_types(cols, cells) ==
    [c \in 1..Len(cols) |->
       IF types_map(cols[c]) = "int" /\ ColumnAnyNa(cells, c)
       THEN "float"
       ELSE types_map(cols[c])]

\* int() of a NaN raises.
astype_raises(x, type) == type = "int" /\ isna(x)

\* Series.astype, cell by cell: float keeps NaN; str() of NaN is the text "nan".
astype(x, type) ==
    CASE type = "int"   -> Cell("int", x.n, 0, "")
      [] type = "float" -> IF isna(x) THEN x ELSE Cell("float", x.n, 0, "")
      [] type = "str"   -> IF isna(x) THEN Cell("str", 0, 0, "nan") ELSE x
      [] OTHER          -> x

\* The dtype of a column after astype.
dtype(type) ==
    CASE type = "int"   -> "int64"
      [] type = "float" -> "float64"
      [] OTHER          -> "object"

NoFrame == [raised |-> FALSE, dtypes |-> <<>>, cells |-> <<>>]

_parse_DAX_result(tb) ==
    LET nr == Len(tb.rows)
        nc == Len(tb.cols)
        df == [r \in 1..nr |-> [c \in 1..nc |-> ReplaceDBNull(tb.rows[r][c])]]
        dt == ConvertDatetimes(tb.cols, df)
        ty == col_types(tb.cols, dt.cells)
    IN  IF \/ dt.raised
           \/ \E r \in 1..nr : \E c \in 1..nc : astype_raises(dt.cells[r][c], ty[c])
        THEN [raised |-> TRUE, dtypes |-> <<>>, cells |-> <<>>]
        ELSE [raised |-> FALSE,
              dtypes |-> [c \in 1..nc |-> dtype(ty[c])],
              cells |-> [r \in 1..nr |->
                           [c \in 1..nc |-> astype(dt.cells[r][c], ty[c])]]]

\* -------------------------------------------------------- the model processor

ItemTypes == {"model", "Table", "cube"}
Items == {None, "", "Sales"}
RefreshTypes == {"full", "automatic"}

\* str.lower on the item types above
lower(str) == IF str = "Table" THEN "table" ELSE str

\* not item
Falsy(item) == item = None \/ item = ""

\* refresh_dict = {"full": AMO.RefreshType.Full}
refresh_dict == [full |-> "RefreshType.Full"]

\* A validation that forgets the item name.
ValidateScopeOnly(item_type, item) ==
    IF lower(item_type) \notin {"table", "model"} THEN "AssertionError" ELSE "ok"

\* Lines 234-236
ValidateArgs(item_type, item) ==
    IF lower(item_type) \notin {"table", "model"}
    THEN "AssertionError"
    ELSE IF lower(item_type) = "table" /\ Falsy(item)
         THEN "ValueError"
         ELSE "ok"

\* A branch that always refreshes the whole model.
RefreshTargetModelOnly(item_type) == "model"

\* Line 249: what RequestRefresh is called on
RefreshTarget(item_type) ==
    IF lower(item_type) = "table" THEN "table" ELSE "model"

RequestRefreshOn(target) ==
    IF target = "table" THEN "RequestRefresh(table)" ELSE "RequestRefresh(model)"

\* Which collaborator call of a process_model run fails first ("Find" returns
\* no table), and whether the commit's impact is empty.
Collaborators == {"none", "Connect", "Databases", "Find", "RequestRefresh", "SaveChanges"}
Envs ==
    {[fail |-> c, impactEmpty |-> FALSE] : c \in Collaborators}
    \cup {[fail |-> "none", impactEmpty |-> TRUE]}

Raised(error, trace, connOpen) ==
    [result |-> error, trace |-> trace, connOpen |-> connOpen,
     noImpactLogged |-> FALSE]

\* The body of process_model, lines 234-261. trace: the calls made on the AMO
\* server and its objects; connOpen: Connect succeeded and Disconnect was not
\* called.
process_model(defs, item_type, item, refresh_type, env) ==
    LET target == RefreshTarget(item_type)
        t0 == IF target = "table"
              THEN <<"Connect", "Databases", "Find">>
              ELSE <<"Connect", "Databases">>
        t1 == Append(t0, RequestRefreshOn(target))
        t2 == Append(t1, "SaveChanges")
    IN  IF ValidateArgs(item_type, item) # "ok"
        THEN Raised(ValidateArgs(item_type, item), <<>>, FALSE)
        ELSE IF "AMO" \notin defs
        THEN Raised("NameError", <<>>, FALSE)
        ELSE IF env.fail = "Connect"
        THEN Raised("ConnectError", <<"Connect">>, FALSE)
        ELSE IF env.fail = "Databases"
        THEN Raised("DatabaseNotFound", <<"Connect", "Databases">>, TRUE)
        ELSE IF target = "table" /\ env.fail = "Find"
        THEN Raised("AttributeError", t0, TRUE)
        ELSE IF refresh_type \notin DOMAIN refresh_dict
        THEN Raised("KeyError", t0, TRUE)
        ELSE IF env.fail = "RequestRefresh"
        THEN Raised("RefreshError", t1, TRUE)
        ELSE IF env.fail = "SaveChanges"
        THEN Raised("SaveError", t2, TRUE)
        ELSE [result |-> "ok", trace |-> Append(t2, "Disconnect"),
              connOpen |-> FALSE, noImpactLogged |-> env.impactEmpty]

\* ------------------------------------------------ the single caller's calls

Threads == 1..NThreads

EmptyTable == [cols |-> <<>>, rows |-> <<>>]

NotParsed == [done |-> FALSE, raised |-> FALSE, dtypes |-> <<>>, cells |-> <<>>]

Returned == [result |-> "ok", trace |-> <<>>, connOpen |-> FALSE,
             noImpactLogged |-> FALSE]

\* What a public call did: its arguments, the loads its guards ran, and how
\* it ended.
CallRecord(op, item_type, item, refresh_type, amo_path, adomd_path, loads, out, df) ==
    [op |-> op, item_type |-> item_type, item |-> item,
     refresh_type |-> refresh_type,
     paths |-> (amo_path # None \/ adomd_path # None),
     loads |-> loads, result |-> out.result,
     trace |-> out.trace, connOpen |-> out.connOpen,
     noImpactLogged |-> out.noImpactLogged, df |-> df]

NoCall == CallRecord("none", None, None, None, None, None, 0, Returned, NoFrame)

\* The outcomes of the load a guard may run: none to draw when the guard
\* finds the sentinel.
LoadOutcomes(defs, amo_path, adomd_path) ==
    IF SentinelDefined(defs) THEN {"none"} ELSE FailPoints(amo_path, adomd_path)

Completed(g) == g.loads = 1 /\ ~g.raised

\* The tables a query of the single caller may fill.
QueryTables == Tables(1, 1)

InitClient ==
    /\ defined = {}
    /\ loaded = FALSE
    /\ last = NoCall

InitParse ==
    /\ table = EmptyTable
    /\ parsed = NotParsed

InitThreads ==
    /\ pc = [t \in Threads |-> "idle"]
    /\ observed = [t \in Threads |-> "nothing"]
    /\ writes = 0

Init == InitClient /\ InitParse /\ InitThreads

\* A call returns to the caller: the globals and the counters after it.
Return(g, inner, rec) ==
    /\ defined' = inner.defined
    /\ loaded' = (loaded \/ Completed(g) \/ Completed(inner))
    /\ last' = rec
    /\ UNCHANGED <<table, parsed, pc, observed, writes>>

\* A guard that ran no nested guard.
NoInner(g) == [defined |-> g.defined, loads |-> 0, raised |-> FALSE]

\* A guard's load raised: the wrapped function is not called.
LoadFailed(op, g, inner, item_type, item, refresh_type, amo_path, adomd_path) ==
    Return(g, inner,
           CallRecord(op, item_type, item, refresh_type, amo_path, adomd_path,
                      g.loads + inner.loads, Raised("LoadError", <<>>, FALSE),
                      NoFrame))

\* Lines 111-123
set_conn_string ==
    \E amo_path \in PathArgs, adomd_path \in PathArgs :
    \E failAt \in LoadOutcomes(defined, amo_path, adomd_path) :
        LET g == _assert_dotnet_loaded(defined, amo_path, adomd_path, failAt)
        IN  IF g.raised
            THEN LoadFailed("set_conn_string", g, NoInner(g), None, None, None,
                            amo_path, adomd_path)
            ELSE Return(g, NoInner(g),
                        CallRecord("set_conn_string", None, None, None,
                                   amo_path, adomd_path, g.loads, Returned,
                                   NoFrame))

\* Lines 147-153 and 142-144: the body of get_DAX
get_DAX_body(defs, tb, fillOK) ==
    IF "ADOMD" \notin defs
    THEN [out |-> Raised("NameError", <<>>, FALSE), df |-> NoFrame]
    ELSE IF ~fillOK
    THEN [out |-> Raised("QueryError", <<>>, FALSE), df |-> NoFrame]
    ELSE IF _parse_DAX_result(tb).raised
    THEN [out |-> Raised("AttributeError", <<>>, FALSE), df |-> NoFrame]
    ELSE [out |-> Returned, df |-> _parse_DAX_result(tb)]

\* Lines 126-144
get_DAX ==
    \E amo_path \in PathArgs, adomd_path \in PathArgs :
    \E failAt \in LoadOutcomes(defined, amo_path, adomd_path) :
        LET g == _assert_dotnet_loaded(defined, amo_path, adomd_path, failAt)
        IN  IF g.raised
            THEN LoadFailed("get_DAX", g, NoInner(g), None, None, None,
                            amo_path, adomd_path)
            ELSE \E tb \in QueryTables, fillOK \in BOOLEAN :
                    LET b == get_DAX_body(g.defined, tb, fillOK)
                    IN  Return(g, NoInner(g),
                               CallRecord("get_DAX", None, None, None, amo_path,
                                          adomd_path, g.loads, b.out, b.df))

\* The guarded process_model, entered with the globals defs: its guard, then
\* its body with the collaborators' outcomes.
GuardedProcessModel(op, g, defs, kw_amo, kw_adomd, item_type, item, refresh_type, amo_path, adomd_path) ==
    \E failAt \in LoadOutcomes(defs, kw_amo, kw_adomd) :
        LET inner == _assert_dotnet_loaded(defs, kw_amo, kw_adomd, failAt)
        IN  IF inner.raised
            THEN LoadFailed(op, g, inner, item_type, item, refresh_type,
                            amo_path, adomd_path)
            ELSE \E env \in Envs :
                    Return(g, inner,
                           CallRecord(op, item_type, item, refresh_type,
                                      amo_path, adomd_path,
                                      g.loads + inner.loads,
                                      process_model(inner.defined, item_type,
                                                    item, refresh_type, env),
                                      NoFrame))

\* A function that calls process_model with no path arguments, after its own
\* guard.
ViaGuard(op, amo_path, adomd_path, item_type, item, refresh_type) ==
    \E failAt \in LoadOutcomes(defined, amo_path, adomd_path) :
        LET g == _assert_dotnet_loaded(defined, amo_path, adomd_path, failAt)
        IN  IF g.raised
            THEN LoadFailed(op, g, NoInner(g), item_type, item, refresh_type,
                            amo_path, adomd_path)
            ELSE GuardedProcessModel(op, g, g.defined, None, None, item_type,
                                     item, refresh_type, amo_path, adomd_path)

\* Lines 196-203
process_database ==
    \E amo_path \in PathArgs, adomd_path \in PathArgs :
    \E refresh_type \in RefreshTypes :
        ViaGuard("process_database", amo_path, adomd_path, "model", None,
                 refresh_type)

\* Lines 206-214
process_table ==
    \E amo_path \in PathArgs, adomd_path \in PathArgs :
    \E table_name \in Items, refresh_type \in RefreshTypes :
        ViaGuard("process_table", amo_path, adomd_path, "table", table_name,
                 refresh_type)

\* No guard ran before this call's own.
NoGuard == [defined |-> defined, loads |-> 0, raised |-> FALSE]

\* Lines 217-261, called by the caller itself
call_process_model ==
    \E amo_path \in PathArgs, adomd_path \in PathArgs :
    \E item_type \in ItemTypes, item \in Items, refresh_type \in RefreshTypes :
        GuardedProcessModel("process_model", NoGuard, defined, amo_path,
                            adomd_path, item_type, item, refresh_type,
                            amo_path, adomd_path)

Next ==
    \/ set_conn_string
    \/ get_DAX
    \/ process_database
    \/ process_table
    \/ call_process_model

Spec == Init /\ [][Next]_vars

\* ------------------------------------------------- converting a query result

Parsed(df) ==
    [done |-> TRUE, raised |-> df.raised, dtypes |-> df.dtypes, cells |-> df.cells]

\* The table is any DataTable of at most MaxCols columns and MaxRows rows.
InitTables ==
    /\ InitClient
    /\ InitThreads
    /\ \E nc \in 0..MaxCols, nr \in 0..MaxRows :
       \E cs \in [1..nc -> TypeNames] :
       \E rs \in RowsFor(cs, nr) :
          table = [cols |-> cs, rows |-> rs]
    /\ parsed = NotParsed

\* Lines 156-193, applied to the table
parse_DAX_result ==
    /\ ~parsed.done
    /\ parsed' = Parsed(_parse_DAX_result(table))
    /\ UNCHANGED <<defined, loaded, last, table, pc, observed, writes>>

NextParse == parse_DAX_result

SpecParse == InitTables /\ [][NextParse]_vars

\* ------------------------------------- threads making their first guarded call

\* The positions of a thread inside _load_assemblies.
LoadPcs == {LoadSteps[i] : i \in 1..Len(LoadSteps)}

\* The position after a step of _load_assemblies that did not raise.
AfterStep(step) ==
    IF StepIndex(step) = Len(LoadSteps)
    THEN "body"
    ELSE LoadSteps[StepIndex(step) + 1]

\* The globals a step binds when it does not raise.
BoundBy(step) == {g \in GlobalNames : ImportStep[g] = step}

\* Line 98: a thread enters the wrapper.
Enter(t) ==
    /\ pc[t] = "idle"
    /\ pc' = [pc EXCEPT ![t] = "check"]
    /\ UNCHANGED <<defined, loaded, last, table, parsed, observed, writes>>

\* Lines 101-106: the thread evaluates type(DataTable) and goes on to the
\* wrapped function, or into _load_assemblies on a NameError.
CheckSentinel(t) ==
    /\ pc[t] = "check"
    /\ observed' = [observed EXCEPT ![t] =
                      IF "DataTable" \in defined THEN "bound" ELSE "unbound"]
    /\ pc' = [pc EXCEPT ![t] =
                IF SentinelDefined(defined) THEN "body" ELSE LoadSteps[1]]
    /\ UNCHANGED <<defined, loaded, last, table, parsed, writes>>

\* Lines 48-74, one statement group at a time: it raises, or binds its global.
LoadStep(t) ==
    /\ pc[t] \in LoadPcs
    /\ \E ok \in BOOLEAN :
        IF ok
        THEN /\ defined' = defined \cup BoundBy(pc[t])
             /\ writes' = writes + Cardinality(BoundBy(pc[t]))
             /\ loaded' = (loaded \/ AfterStep(pc[t]) = "body")
             /\ pc' = [pc EXCEPT ![t] = AfterStep(pc[t])]
        ELSE /\ pc' = [pc EXCEPT ![t] = "raised"]
             /\ UNCHANGED <<defined, loaded, writes>>
    /\ UNCHANGED <<last, table, parsed, observed>>

\* Line 107: the wrapped function runs and returns.
Body(t) ==
    /\ pc[t] = "body"
    /\ pc' = [pc EXCEPT ![t] = "done"]
    /\ UNCHANGED <<defined, loaded, last, table, parsed, observed, writes>>

NextThreads ==
    \E t \in Threads : Enter(t) \/ CheckSentinel(t) \/ LoadStep(t) \/ Body(t)

SpecThreads == Init /\ [][NextThreads]_vars

\* ------------------------------------------------------------------ claims

ProcessOps == {"process_model", "process_table", "process_database"}

IsRequestRefresh(call) ==
    call \in {"RequestRefresh(table)", "RequestRefresh(model)"}

Requested(trace) == \E i \in 1..Len(trace) : IsRequestRefresh(trace[i])

Disconnected(trace) == \E i \in 1..Len(trace) : trace[i] = "Disconnect"

\* Connect was called and returned.
ConnectSucceeded(call) ==
    /\ Len(call.trace) >= 1
    /\ call.trace[1] = "Connect"
    /\ call.result # "ConnectError"

\* C1: every process_model call in which Connect has succeeded executes
\* Disconnect before it returns or raises, whatever the exit path (a failed
\* lookup, a raising RequestRefresh, a raising SaveChanges).
C1_DisconnectOnEveryExit ==
    (last.op \in ProcessOps /\ ConnectSucceeded(last)) => Disconnected(last.trace)

\* The scope and item arguments process_model must reject.
BadScope(call) ==
    /\ call.op \in ProcessOps
    /\ \/ lower(call.item_type) \notin {"table", "model"}
       \/ lower(call.item_type) = "table" /\ call.item \in {None, ""}

\* C2: a process_model call with item_type "table" (in any letter case) and no
\* item name, or with an item_type that is neither "model" nor "table", makes
\* no call on an AMO server, Connect included, and leaves none connected; and
\* once its guard has let it into the function, it raises the argument error
\* (the assertion's or the ValueError).
C2_ArgumentsCheckedBeforeConnect ==
    BadScope(last) =>
        /\ last.trace = <<>>
        /\ ~last.connOpen
        /\ last.result # "ok"
        /\ last.result # "LoadError" =>
              last.result = (IF lower(last.item_type) \in {"table", "model"}
                             THEN "ValueError" ELSE "AssertionError")

\* C2's case: the client is loaded, the scope is "Table" and the item is the
\* empty string, and the call raised ValueError.
C2_Witness ==
    /\ last.op = "process_model"
    /\ last.item_type = "Table"
    /\ last.item = ""
    /\ last.result = "ValueError"
    /\ GlobalNames \subseteq defined

\* C3: a process_model call with a refresh kind other than "full" fails, and
\* when its error reaches the caller no connection opened by the call is
\* still open and no refresh has been requested.
C3_BadRefreshKindLeavesNoState ==
    (last.op \in ProcessOps /\ last.refresh_type \notin {None, "full"}) =>
        /\ last.result # "ok"
        /\ ~last.connOpen
        /\ ~Requested(last.trace)

Int64Columns == {c \in 1..Len(table.cols) : table.cols[c] = "System.Int64"}

MissingIn(c) == \E r \in 1..Len(table.rows) : table.rows[r][c] = DBNull

\* C4: in the table _parse_DAX_result returns, a column declared System.Int64
\* is floating-point if and only if one of its own rows is missing; with none
\* missing it is an integer column whose values are the source's, whatever is
\* missing in the other columns.
C4_Int64WidenedIffMissing ==
    (parsed.done /\ ~parsed.raised) =>
        \A c \in Int64Columns :
            /\ parsed.dtypes[c] = "float64" <=> MissingIn(c)
            /\ ~MissingIn(c) =>
                  /\ parsed.dtypes[c] = "int64"
                  /\ \A r \in 1..Len(table.rows) :
                        parsed.cells[r][c] = table.rows[r][c]

\* C4's case: an Int64 column with no missing row, converted beside another
\* column that has one.
C4_Witness ==
    /\ parsed.done
    /\ ~parsed.raised
    /\ Len(table.rows) >= 1
    /\ \E c \in Int64Columns :
          /\ ~MissingIn(c)
          /\ parsed.dtypes[c] = "int64"
          /\ \E d \in 1..Len(table.cols) : d # c /\ MissingIn(d)

\* C5: every cell that holds System.DBNull in the source is the missing-value
\* marker in the table _parse_DAX_result returns, for a column of any declared
\* type.
C5_NullStaysMissing ==
    (parsed.done /\ ~parsed.raised) =>
        \A r \in 1..Len(table.rows) : \A c \in 1..Len(table.cols) :
            table.rows[r][c] = DBNull => isna(parsed.cells[r][c])

DateTimeColumns == {c \in 1..Len(table.cols) : table.cols[c] = "System.DateTime"}

AllMissingIn(c) == \A r \in 1..Len(table.rows) : table.rows[r][c] = DBNull

\* C6: for a date-time column that is not entirely missing, a column mixing
\* missing and non-missing cells included, _parse_DAX_result does not raise,
\* every non-missing cell becomes the timestamp of its source value (to the
\* second) and every missing cell stays missing; an entirely missing date-time
\* column stays fully missing.
C6_DateTimeColumnsConverted ==
    parsed.done =>
        \A c \in DateTimeColumns :
            IF AllMissingIn(c)
            THEN ~parsed.raised =>
                    \A r \in 1..Len(table.rows) : isna(parsed.cells[r][c])
            ELSE /\ ~parsed.raised
                 /\ \A r \in 1..Len(table.rows) :
                       IF table.rows[r][c] = DBNull
                       THEN isna(parsed.cells[r][c])
                       ELSE /\ parsed.cells[r][c].t = "Timestamp"
                            /\ parsed.cells[r][c].n = table.rows[r][c].n

\* C7: the single caller's first guarded call runs _load_assemblies, and once
\* a run of it has returned normally no later call runs it again, path
\* arguments or not, the nested call of process_model included.
C7_LoadAtMostOnce ==
    [][/\ last.op = "none" => last'.loads = 1
       /\ loaded => (last'.loads = 0 /\ loaded')]_vars

\* C7's case: after a successful load, a later process_database call that
\* passes path arguments ran no load, in its own guard or in process_model's.
C7_Witness ==
    /\ loaded
    /\ last.op = "process_database"
    /\ last.paths
    /\ last.loads = 0
    /\ last.result = "ok"

\* C8: a load that fails leaves no partial client behind: the sentinel
\* DataTable is bound only if System, DataTable, AMO and ADOMD all are.
C8_NoPartialClient ==
    "DataTable" \in defined => GlobalNames \subseteq defined

NotFind(call) == call # "Find"

\* C9: a process_model call that completes without error has called Connect,
\* the database lookup, exactly one RequestRefresh (on the table for scope
\* "table", found by a lookup just before it, otherwise on the model),
\* SaveChanges and Disconnect, in this order; in any call SaveChanges follows
\* a RequestRefresh and nothing follows Disconnect.
C9_CollaboratorOrder ==
    last.op \in ProcessOps =>
        /\ last.result = "ok" =>
              /\ SelectSeq(last.trace, NotFind) =
                    <<"Connect", "Databases",
                      IF lower(last.item_type) = "table"
                      THEN "RequestRefresh(table)" ELSE "RequestRefresh(model)",
                      "SaveChanges", "Disconnect">>
              /\ \A i \in 1..Len(last.trace) :
                    last.trace[i] = "Find" =>
                        /\ lower(last.item_type) = "table"
                        /\ i < Len(last.trace)
                        /\ IsRequestRefresh(last.trace[i + 1])
        /\ \A i \in 1..Len(last.trace) :
              /\ last.trace[i] = "SaveChanges" =>
                    \E j \in 1..(i - 1) : IsRequestRefresh(last.trace[j])
              /\ last.trace[i] = "Disconnect" => i = Len(last.trace)

\* C9's case: a process_table call on the table "Sales" that completed.
C9_Witness ==
    /\ last.op = "process_table"
    /\ last.item = "Sales"
    /\ last.result = "ok"
    /\ Len(last.trace) >= 5

\* C10: nothing but each thread's own earlier look at the sentinel decides
\* whether it runs _load_assemblies: a thread is inside the load only if it
\* saw DataTable unbound, a thread that saw it bound goes straight to the
\* wrapped function, and the globals are written as often as the threads
\* that saw it unbound write them.
C10_CheckThenLoad ==
    /\ \A t \in Threads :
          /\ pc[t] \in LoadPcs => observed[t] = "unbound"
          /\ observed[t] = "bound" => pc[t] \in {"body", "done"}
    /\ writes <= Cardinality(GlobalNames)
                   * Cardinality({t \in Threads : observed[t] = "unbound"})

\* C10's case: two threads both saw the sentinel unbound, both ran
\* _load_assemblies to its end, and the globals were written more than once.
C10_Witness ==
    /\ \E t \in Threads : \E u \in Threads \ {t} :
          /\ observed[t] = "unbound" /\ pc[t] = "done"
          /\ observed[u] = "unbound" /\ pc[u] = "done"
    /\ writes > Cardinality(GlobalNames)

====
